---- MODULE Spec2Model ----
(***************************************************************************)
(* Model of the CYW43439 gSPI bus driver (package cyw43439):               *)
(*   - the command codec make_cmd,                                         *)
(*   - the register access layer readReg / writeReg,                       *)
(*   - the bus transactions SPIRead / SPIWrite / SPIWrite32 / SPIWriteRead,*)
(*   - the bring-up sequence Dev.Init and the power cycle Dev.Reset,       *)
(*   - the pure functions GetCLM / align32, the Status accessors and       *)
(*     Status.String,                                                      *)
(*   - the tracking of the backplane window in Dev.currentBackplaneWindow. *)
(* A uint32 is a bit vector [0..31 -> {0,1}] (bit 0 is the least           *)
(* significant bit), so that shifts and masks keep the 32-bit width.       *)
(* A byte is a number in 0..255 and a byte slice is a sequence of bytes.   *)
(***************************************************************************)
EXTENDS Integers, Sequences, FiniteSets, TLC

VARIABLES
    \* machine.Pin levels and modes driven by the driver
    cs, wlRegOn, sharedSD,
    \* fields of Dev
    lastSize, lastHeader, currentBackplaneWindow, lastBackplaneWindow,
    \* position of the single thread of control
    op, initPc, resetPc, busOp, busPc,
    \* arguments and locals of the running calls
    fn, reg, size, val, cmd, txq, rlen, rbuf, busErr, got, elapsed, wlen,
    \* what the last call returned to its caller
    ret,
    \* observation of the wire (what the transport saw in the running or last transaction)
    wire, xferErr, afterFail, sawPattern, nWrites, lastTxn,
    \* the steps of the running or last Init / Reset, the events of the running transaction
    steps, events,
    \* the simulated register-store transport
    sim, store, written,
    \* inputs and output of the pure functions
    cmdIn, cmdOut, clmIn, clmOut, statusIn, statusOut

pinVars == <<cs, wlRegOn, sharedSD>>
devFields == <<lastSize, lastHeader, currentBackplaneWindow, lastBackplaneWindow>>
ctlVars == <<op, initPc, resetPc, busOp, busPc>>
callVars == <<fn, reg, size, val, cmd, txq, rlen, rbuf, busErr, got, elapsed, wlen>>
obsVars == <<wire, xferErr, afterFail, sawPattern, nWrites, lastTxn>>
simVars == <<sim, store, written>>
logVars == <<steps, events>>
pureVars == <<cmdIn, cmdOut, clmIn, clmOut, statusIn, statusOut>>
vars == <<pinVars, devFields, ctlVars, callVars, ret, obsVars, logVars, simVars, pureVars>>

----------------------------------------------------------------------------
(* 32-bit words                                                            *)

Bits == 0..31

\* uint32(n) for a number n < 2^31
FromNat(n) == [i \in Bits |-> IF i = 31 THEN 0 ELSE (n \div (2^i)) % 2]

Zero32 == [i \in Bits |-> 0]

\* w << k, bits shifted past bit 31 are lost
Shl(w, k) == [i \in Bits |-> IF i >= k THEN w[i - k] ELSE 0]

\* a | b
Or(a, b) == [i \in Bits |-> IF a[i] = 1 \/ b[i] = 1 THEN 1 ELSE 0]

\* a & b
And(a, b) == [i \in Bits |-> IF a[i] = 1 /\ b[i] = 1 THEN 1 ELSE 0]

\* the number held in bits lo .. lo+n-1 of w (n <= 30)
Field(w, lo, n) ==
    LET S[k \in 0..n] == IF k = 0 THEN 0 ELSE S[k - 1] + w[lo + k - 1] * (2^(k - 1))
    IN  S[n]

\* byte(w >> (8*k))
ByteOf(w, k) == Field(w, 8 * k, 8)

\* binary.LittleEndian.Uint32(b): b[0] | b[1]<<8 | b[2]<<16 | b[3]<<24 (b is 1-indexed here)
LittleEndianUint32(b) ==
    Or(Or(FromNat(b[1]), Shl(FromNat(b[2]), 8)),
       Or(Shl(FromNat(b[3]), 16), Shl(FromNat(b[4]), 24)))

\* binary.BigEndian.PutUint32(buf, v): buf[0] = byte(v>>24) ... buf[3] = byte(v)
BigEndianPutUint32(v) == <<ByteOf(v, 3), ByteOf(v, 2), ByteOf(v, 1), ByteOf(v, 0)>>

\* the word with the given bytes, most significant first (0xB3B2B1B0)
U32(b3, b2, b1, b0) == LittleEndianUint32(<<b0, b1, b2, b3>>)

----------------------------------------------------------------------------
(* Command codec                                                           *)

b2u32(b) == FromNat(IF b THEN 1 ELSE 0)

\* a variant that shifts the address one bit short
make_cmd_addr10(write, inc, f, addr, sz) ==
    Or(Or(Or(Shl(b2u32(write), 31), Shl(b2u32(inc), 30)), Shl(FromNat(f), 28)),
       Or(Shl(And(addr, FromNat(131071)), 10), sz))

\* a variant that forgets the 17-bit mask
make_cmd_nomask(write, inc, f, addr, sz) ==
    Or(Or(Or(Shl(b2u32(write), 31), Shl(b2u32(inc), 30)), Shl(FromNat(f), 28)),
       Or(Shl(addr, 11), sz))

\* b2u32(write)<<31 | b2u32(inc)<<30 | uint32(fn)<<28 | (addr&0x1ffff)<<11 | sz
make_cmd(write, inc, f, addr, sz) ==
    Or(Or(Or(Shl(b2u32(write), 31), Shl(b2u32(inc), 30)), Shl(FromNat(f), 28)),
       Or(Shl(And(addr, FromNat(131071)), 11), sz))

----------------------------------------------------------------------------
(* Constants of the driver                                                 *)

FuncAllSPIRegisters == 0
FuncExtraSPIRegisters == 1
FuncDMA1 == 2
FuncDMA2 == 3
Functions == {FuncAllSPIRegisters, FuncExtraSPIRegisters, FuncDMA1, FuncDMA2}

\* FuncBackplane Function = 0b01: the function space of the chip's backplane
FuncBackplane == 1
backplaneFunction == 0
whdBusSPIBackplaneReadPadding == 4
\* pollLimit = 100 * time.Millisecond, in milliseconds
pollLimit == 100
\* pollAddr = 0x1400
pollAddr == 5120
\* TestRegisterAddr uint32 = 0x14
TestRegisterAddr == 20
\* pollExpect = 0xADBEEDFE
pollExpect == U32(173, 190, 237, 254)
\* (1<<WakeUpPos)|(1<<InterruptPolPos)|(0<<HiSpeedModePos)|(0<<EndianessPos)|(1<<WordLengthPos)
WordLengthPos == 31
EndianessPos == 30
HiSpeedModePos == 27
InterruptPolPos == 26
WakeUpPos == 24
\* a variant that sets the high-speed-mode bit
initConfigValue_highSpeed ==
    Or(Or(Shl(FromNat(1), WakeUpPos), Shl(FromNat(1), InterruptPolPos)),
       Or(Or(Shl(FromNat(1), HiSpeedModePos), Shl(FromNat(0), EndianessPos)),
          Shl(FromNat(1), WordLengthPos)))

initConfigValue ==
    Or(Or(Shl(FromNat(1), WakeUpPos), Shl(FromNat(1), InterruptPolPos)),
       Or(Or(Shl(FromNat(0), HiSpeedModePos), Shl(FromNat(0), EndianessPos)),
          Shl(FromNat(1), WordLengthPos)))

\* time.Sleep(60 * time.Millisecond) of Init, in milliseconds
initSleepMs == 60
\* time.Sleep(20 * time.Millisecond) and time.Sleep(250 * time.Millisecond) of Reset
resetLowMs == 20
resetHighMs == 250

NoErr == "nil"
\* errors.New("poll failed")
errPollFailed == "poll failed"
\* errors.New("length of buffer must be multiple of 4")
errBufferLength == "length of buffer must be multiple of 4"

----------------------------------------------------------------------------
(* Bounds of the model and the sets the inputs are drawn from              *)

\* the clock advances in steps of TickMs milliseconds while Init polls
TickMs == 50

\* errors the transport (drivers.SPI) can report
TransportErrs == {"errSPI1", "errSPI2"}

\* register addresses used by the callers
Regs == {0, 20}

\* (size, value) of RegisterWriteUint8 / Uint16 / Uint32
WriteArgs ==
    {<<1, U32(0, 0, 0, 90)>>, <<2, U32(0, 0, 18, 52)>>,
     <<4, U32(18, 52, 86, 120)>>, <<4, U32(0, 0, 0, 1)>>}
Sizes == {1, 2, 4}

\* what the chip may answer in the data phase: 4 data bytes, then padding
ChipData == {<<254, 237, 190, 173>>, <<1, 2, 3, 4>>, <<173, 190, 237, 254>>}
ChipPad == {<<0, 0, 0, 0>>, <<5, 6, 7, 8>>}
Take(s, n) == SubSeq(s, 1, n)
Responses(n) == {Take(d \o p, n) : d \in ChipData, p \in ChipPad}

\* commands and buffers of the direct calls of the bus operations
DirectCmds == {make_cmd(TRUE, TRUE, FuncExtraSPIRegisters, FromNat(20), FromNat(4))}
DirectBytes == {<<>>, <<9, 8>>, <<1, 2, 3, 4>>, <<1, 2, 3, 4, 5, 6, 7, 8>>}
DirectWords == {<<>>, <<U32(4, 3, 2, 1)>>,
                <<U32(4, 3, 2, 1), U32(8, 7, 6, 5), Zero32, Zero32>>}
DirectReadLens == {0, 4}

----------------------------------------------------------------------------
(* Bus transport shim                                                      *)

\* writeU32LittleEndian(v): the four bytes handed to d.spi.Transfer, in order
writeU32LittleEndian(v) == <<ByteOf(v, 0), ByteOf(v, 1), ByteOf(v, 2), ByteOf(v, 3)>>

\* spiWrite32(command, w): the bytes handed to d.spi.Transfer, in order. Every
\* writeU32LittleEndian returns nil, so the words of w always follow the command.
spiWrite32(command, w) ==
    LET F[k \in 0..Len(w)] == IF k = 0 THEN <<>> ELSE F[k - 1] \o writeU32LittleEndian(w[k])
    IN  writeU32LittleEndian(command) \o F[Len(w)]

\* unsafe.Slice((*uint32)(unsafe.Pointer(&w[0])), n) over a byte slice w, on the
\* little-endian target: word k is made of bytes 4k .. 4k+3
unsafeSliceBytes(w, n) == [k \in 1..n |-> LittleEndianUint32(SubSeq(w, 4 * k - 3, 4 * k))]

\* unsafe.Slice((*uint32)(unsafe.Pointer(&w[0])), n) over a word slice w
unsafeSliceWords(w, n) == [k \in 1..n |-> w[k]]

\* outcomes of one d.spi.Transfer / d.spi.Tx call
TransportOutcomes == IF sim THEN {NoErr} ELSE {NoErr} \cup TransportErrs

\* the simulated register store decodes the command it received
simKey(command) == <<Field(command, 28, 2), Field(command, 11, 17)>>
simResponse(command, n) ==
    LET held == IF simKey(command) \in DOMAIN store THEN store[simKey(command)] ELSE <<>>
    IN  [k \in 1..n |-> IF k <= Len(held) THEN held[k] ELSE 0]
simStore(bytes) ==
    IF sim /\ Len(bytes) >= 4 /\ simKey(LittleEndianUint32(Take(bytes, 4))) \in DOMAIN store
    THEN [store EXCEPT ![simKey(LittleEndianUint32(Take(bytes, 4)))] =
              SubSeq(bytes, 5, Len(bytes))]
    ELSE store

busVars == <<busOp, busPc, cmd, txq, rlen, rbuf, busErr, cs, sharedSD, wire, xferErr,
             afterFail, nWrites, lastTxn, events, wlen>>

\* d.cs.Low() followed by spiWrite32(command, w) up to its first Transfer
busEnter(kind, command, w, n, prior) ==
    /\ busOp' = kind
    /\ busPc' = "cmd"
    /\ cmd' = command
    /\ rlen' = n
    /\ cs' = "low"
    /\ sharedSD' = "output"
    /\ txq' = spiWrite32(command, w)
    /\ wire' = <<>>
    /\ xferErr' = NoErr
    /\ afterFail' = FALSE
    /\ rbuf' = <<>>
    /\ busErr' = NoErr
    /\ nWrites' = IF kind = "SPIRead" \/ kind = "SPIWriteRead" THEN prior ELSE prior + 1
    /\ lastTxn' = kind
    /\ events' = <<"cs.Low", "sharedSD.PinOutput">>

\* d.cs.Low() followed by the index expression &w[0] on an empty slice: a panic
busPanic(kind, command, prior) ==
    /\ busOp' = kind
    /\ busPc' = "panic"
    /\ cmd' = command
    /\ cs' = "low"
    /\ wire' = <<>>
    /\ xferErr' = NoErr
    /\ afterFail' = FALSE
    /\ lastTxn' = kind
    /\ nWrites' = prior
    /\ events' = <<"cs.Low">>
    /\ UNCHANGED <<rlen, sharedSD, txq, rbuf, busErr>>

\* a bus operation that returns err before touching the bus
busReject(kind, command, err, prior) ==
    /\ busOp' = kind
    /\ busPc' = "ret"
    /\ cmd' = command
    /\ busErr' = err
    /\ wire' = <<>>
    /\ xferErr' = NoErr
    /\ afterFail' = FALSE
    /\ nWrites' = prior
    /\ events' = <<>>
    /\ UNCHANGED <<rlen, cs, sharedSD, txq, rbuf, lastTxn>>

SPIRead_enter(command, n, prior) ==
    /\ busEnter("SPIRead", command, <<>>, n, prior)
    /\ wlen' = 0

SPIWriteRead_enter(command, n, prior) ==
    /\ busEnter("SPIWriteRead", command, <<>>, n, prior)
    /\ wlen' = 0

\* w is a []byte; wlen is len(w)
SPIWrite_enter(command, w, prior) ==
    /\ wlen' = Len(w)
    /\ IF Len(w) = 0
       THEN busPanic("SPIWrite", command, prior)
       ELSE busEnter("SPIWrite", command, unsafeSliceBytes(w, Len(w) \div 4), 0, prior)

\* w is a []uint32; wlen is len(w)
SPIWrite32_enter(command, w, prior) ==
    /\ wlen' = Len(w)
    /\ IF Len(w) % 4 # 0
       THEN busReject("SPIWrite32", command, errBufferLength, prior)
       ELSE IF Len(w) = 0
            THEN busPanic("SPIWrite32", command, prior)
            ELSE busEnter("SPIWrite32", command, unsafeSliceWords(w, Len(w) \div 4), 0, prior)

restOfBus == <<wlRegOn, devFields, op, initPc, resetPc, fn, reg, size, val, got, elapsed,
               wlen, ret, sawPattern, steps, sim, written, pureVars>>

\* one d.spi.Transfer(b) inside writeU32LittleEndian: the byte goes out, the
\* returned error is dropped
spiTransfer ==
    /\ busPc = "cmd"
    /\ txq # <<>>
    /\ \E e \in TransportOutcomes :
          /\ wire' = Append(wire, Head(txq))
          /\ txq' = Tail(txq)
          /\ xferErr' = IF xferErr = NoErr THEN e ELSE xferErr
          /\ afterFail' = (afterFail \/ xferErr # NoErr)
    /\ events' = Append(events, "tx")
    /\ UNCHANGED <<busOp, busPc, cmd, rlen, rbuf, busErr, cs, sharedSD, nWrites, lastTxn>>
    /\ UNCHANGED <<restOfBus, store>>

\* SPIRead: d.cs.High() after spiWrite32 returned (its err is nil)
SPIRead_csHigh ==
    /\ busOp = "SPIRead"
    /\ busPc = "cmd"
    /\ txq = <<>>
    /\ cs' = "high"
    /\ busPc' = "turn"
    /\ events' = Append(events, "cs.High")
    /\ UNCHANGED <<busOp, cmd, txq, rlen, rbuf, busErr, sharedSD, wire, xferErr, afterFail,
                   nWrites, lastTxn>>
    /\ UNCHANGED <<restOfBus, store>>

\* a variant that leaves the shared data pin as it is
SPIRead_turn_noConfigure ==
    /\ busOp = "SPIRead"
    /\ busPc = "turn"
    /\ cs' = "low"
    /\ busPc' = "data"
    /\ events' = Append(events, "cs.Low")
    /\ UNCHANGED <<busOp, cmd, txq, rlen, rbuf, busErr, sharedSD, wire, xferErr, afterFail,
                   nWrites, lastTxn>>
    /\ UNCHANGED <<restOfBus, store>>

\* SPIRead: sharedSD.Configure(PinInputPulldown); d.cs.Low(); d.responseDelay()
SPIRead_turn ==
    /\ busOp = "SPIRead"
    /\ busPc = "turn"
    /\ sharedSD' = "input_pulldown"
    /\ cs' = "low"
    /\ busPc' = "data"
    /\ events' = events \o <<"sharedSD.PinInputPulldown", "cs.Low">>
    /\ UNCHANGED <<busOp, cmd, txq, rlen, rbuf, busErr, wire, xferErr, afterFail,
                   nWrites, lastTxn>>
    /\ UNCHANGED <<restOfBus, store>>

\* SPIWriteRead: err is nil; sharedSD.Configure(PinInputPulldown); d.responseDelay()
SPIWriteRead_turn ==
    /\ busOp = "SPIWriteRead"
    /\ busPc = "cmd"
    /\ txq = <<>>
    /\ sharedSD' = "input_pulldown"
    /\ busPc' = "data"
    /\ events' = Append(events, "sharedSD.PinInputPulldown")
    /\ UNCHANGED <<busOp, cmd, txq, rlen, rbuf, busErr, cs, wire, xferErr, afterFail,
                   nWrites, lastTxn>>
    /\ UNCHANGED <<restOfBus, store>>

\* err = d.spi.Tx(nil, r); d.cs.High(); return err
spiTx ==
    /\ busPc = "data"
    /\ \E e \in TransportOutcomes :
       \E r \in (IF sim THEN {simResponse(cmd, rlen)} ELSE Responses(rlen)) :
          /\ rbuf' = r
          /\ busErr' = e
    /\ cs' = "high"
    /\ busPc' = "ret"
    /\ events' = events \o [k \in 1..rlen |-> "rx"] \o <<"cs.High">>
    /\ UNCHANGED <<busOp, cmd, txq, rlen, sharedSD, wire, xferErr, afterFail, nWrites, lastTxn>>
    /\ UNCHANGED <<restOfBus, store>>

\* a variant of the end of a write that leaves chip-select asserted
SPIWrite_end_noCsHigh ==
    /\ busOp \in {"SPIWrite", "SPIWrite32"}
    /\ busPc = "cmd"
    /\ txq = <<>>
    /\ busErr' = NoErr
    /\ busPc' = "ret"
    /\ store' = simStore(wire)
    /\ UNCHANGED events
    /\ UNCHANGED <<busOp, cmd, txq, rlen, rbuf, cs, sharedSD, wire, xferErr, afterFail,
                   nWrites, lastTxn>>
    /\ UNCHANGED restOfBus

\* SPIWrite / SPIWrite32: d.cs.High(); return err (the nil of spiWrite32)
SPIWrite_end ==
    /\ busOp \in {"SPIWrite", "SPIWrite32"}
    /\ busPc = "cmd"
    /\ txq = <<>>
    /\ cs' = "high"
    /\ busErr' = NoErr
    /\ busPc' = "ret"
    /\ store' = simStore(wire)
    /\ events' = Append(events, "cs.High")
    /\ UNCHANGED <<busOp, cmd, txq, rlen, rbuf, sharedSD, wire, xferErr, afterFail,
                   nWrites, lastTxn>>
    /\ UNCHANGED restOfBus

----------------------------------------------------------------------------
(* Register access layer                                                   *)

\* uint8(v), uint16(v), uint32(v) for s = 1, 2, 4
Trunc(v, s) == [i \in Bits |-> IF i < 8 * s THEN v[i] ELSE 0]

NoRet == [op |-> "none", err |-> NoErr, val |-> Zero32, size |-> 0]

\* readReg up to the first Transfer of its SPIRead
readReg_enter(f, r, s, prior) ==
    LET padding == IF f = backplaneFunction THEN whdBusSPIBackplaneReadPadding ELSE 0
        command == make_cmd(FALSE, TRUE, f, FromNat(r), FromNat(s + padding))
    IN  /\ fn' = f
        /\ reg' = r
        /\ size' = s
        /\ val' = Zero32
        /\ SPIRead_enter(command, 4 + padding, prior)
        /\ UNCHANGED devFields

\* what readReg returns once its SPIRead returned: (value, err)
readReg_result ==
    IF busErr # NoErr
    THEN <<Zero32, busErr>>
    ELSE <<LittleEndianUint32(Take(rbuf, 4)), NoErr>>

\* writeReg up to the first Transfer of its SPIWrite
writeReg_enter(f, r, v, s, prior) ==
    LET command == make_cmd(TRUE, TRUE, f, FromNat(r), FromNat(s))
        buf == BigEndianPutUint32(v)
    IN  /\ fn' = f
        /\ reg' = r
        /\ size' = s
        /\ val' = v
        /\ IF f = backplaneFunction
           THEN /\ lastSize' = 8
                /\ lastHeader' = <<command, v>>
                /\ lastBackplaneWindow' = currentBackplaneWindow
           ELSE UNCHANGED <<lastSize, lastHeader, lastBackplaneWindow>>
        /\ UNCHANGED currentBackplaneWindow
        /\ SPIWrite_enter(command, Take(buf, s), prior)

\* the call's frame is gone once it returned
returnToCaller(r) ==
    /\ ret' = r
    /\ op' = "idle"
    /\ initPc' = "none"
    /\ busOp' = "none"
    /\ busPc' = "none"
    /\ fn' = 0
    /\ reg' = 0
    /\ size' = 0
    /\ val' = Zero32
    /\ cmd' = Zero32
    /\ txq' = <<>>
    /\ rlen' = 0
    /\ rbuf' = <<>>
    /\ busErr' = NoErr
    /\ got' = Zero32
    /\ elapsed' = 0
    /\ wire' = <<>>
    /\ xferErr' = NoErr
    /\ afterFail' = FALSE
    /\ resetPc' = "none"
    /\ wlen' = 0
    /\ events' = <<>>
    /\ UNCHANGED <<pinVars, devFields, sawPattern, nWrites, lastTxn, steps, sim, store,
                   pureVars>>

\* RegisterReadUint8 / Uint16 / Uint32 called by the user of the driver
CallRegisterRead ==
    /\ op = "idle"
    /\ ~sim
    /\ \E f \in Functions, r \in Regs, s \in Sizes : readReg_enter(f, r, s, 0)
    /\ op' = "RegRead"
    /\ ret' = NoRet
    /\ steps' = <<>>
    /\ sawPattern' = FALSE
    /\ UNCHANGED <<wlRegOn, initPc, resetPc, got, elapsed, simVars, pureVars>>

\* RegisterReadUintN returns uintN(val), err
RegRead_return ==
    /\ op = "RegRead"
    /\ busPc = "ret"
    /\ returnToCaller([op |-> "RegRead", err |-> readReg_result[2],
                       val |-> Trunc(readReg_result[1], size),
                       size |-> size])
    /\ UNCHANGED written

\* RegisterWriteUint8 / Uint16 / Uint32 called by the user of the driver
CallRegisterWrite ==
    /\ op = "idle"
    /\ ~sim
    /\ \E f \in Functions, r \in Regs, a \in WriteArgs : writeReg_enter(f, r, a[2], a[1], 0)
    /\ op' = "RegWrite"
    /\ ret' = NoRet
    /\ steps' = <<>>
    /\ sawPattern' = FALSE
    /\ UNCHANGED <<wlRegOn, initPc, resetPc, got, elapsed, simVars, pureVars>>

\* RegisterWriteUintN returns the error of writeReg, which is that of SPIWrite
RegWrite_return ==
    /\ op = "RegWrite"
    /\ busPc = "ret"
    /\ returnToCaller([op |-> "RegWrite", err |-> busErr, val |-> val,
                       size |-> size])
    /\ written' = IF sim THEN [f |-> fn, r |-> reg, s |-> size, v |-> val] ELSE written

\* the bus operations called directly
CallSPIRead ==
    /\ op = "idle"
    /\ ~sim
    /\ \E c \in DirectCmds, n \in DirectReadLens : SPIRead_enter(c, n, 0)
    /\ op' = "SPIRead"
    /\ ret' = NoRet
    /\ steps' = <<>>
    /\ sawPattern' = FALSE
    /\ UNCHANGED <<wlRegOn, devFields, initPc, resetPc, fn, reg, size, val, got, elapsed,
                   simVars, pureVars>>

CallSPIWriteRead ==
    /\ op = "idle"
    /\ ~sim
    /\ \E c \in DirectCmds, n \in DirectReadLens : SPIWriteRead_enter(c, n, 0)
    /\ op' = "SPIWriteRead"
    /\ ret' = NoRet
    /\ steps' = <<>>
    /\ sawPattern' = FALSE
    /\ UNCHANGED <<wlRegOn, devFields, initPc, resetPc, fn, reg, size, val, got, elapsed,
                   simVars, pureVars>>

CallSPIWrite ==
    /\ op = "idle"
    /\ ~sim
    /\ \E c \in DirectCmds, w \in DirectBytes : SPIWrite_enter(c, w, 0)
    /\ op' = "SPIWrite"
    /\ ret' = NoRet
    /\ steps' = <<>>
    /\ sawPattern' = FALSE
    /\ UNCHANGED <<wlRegOn, devFields, initPc, resetPc, fn, reg, size, val, got, elapsed,
                   simVars, pureVars>>

CallSPIWrite32 ==
    /\ op = "idle"
    /\ ~sim
    /\ \E c \in DirectCmds, w \in DirectWords : SPIWrite32_enter(c, w, 0)
    /\ op' = "SPIWrite32"
    /\ ret' = NoRet
    /\ steps' = <<>>
    /\ sawPattern' = FALSE
    /\ UNCHANGED <<wlRegOn, devFields, initPc, resetPc, fn, reg, size, val, got, elapsed,
                   simVars, pureVars>>

Direct_return ==
    /\ op \in {"SPIRead", "SPIWriteRead", "SPIWrite", "SPIWrite32"}
    /\ busPc = "ret"
    /\ returnToCaller([op |-> op, err |-> busErr, val |-> Zero32,
                       size |-> 0])
    /\ UNCHANGED written

----------------------------------------------------------------------------
(* Bring-up: Dev.Init                                                      *)

InitRet(e) == [op |-> "Init", err |-> e, val |-> Zero32, size |-> 0]

\* one statement of Init or Reset, with the duration of a time.Sleep
Step(name, ms) == [do |-> name, ms |-> ms]

\* the polling loop is one step however many reads it takes
StepOnce(log, name) ==
    IF log # <<>> /\ log[Len(log)].do = name THEN log ELSE Append(log, Step(name, 0))

CallInit ==
    /\ op = "idle"
    /\ ~sim
    /\ op' = "Init"
    /\ initPc' = "gpioSetup"
    /\ ret' = NoRet
    /\ steps' = <<>>
    /\ sawPattern' = FALSE
    /\ nWrites' = 0
    /\ lastTxn' = "none"
    /\ xferErr' = NoErr
    /\ afterFail' = FALSE
    /\ UNCHANGED <<pinVars, devFields, resetPc, busOp, busPc, callVars, wire, events,
                   simVars, pureVars>>

\* d.gpioSetup()
gpioSetup ==
    /\ op = "Init"
    /\ initPc = "gpioSetup"
    /\ wlRegOn' = "output"
    /\ sharedSD' = "output"
    /\ cs' = "high"
    /\ initPc' = "wlRegOn"
    /\ steps' = Append(steps, Step("gpioSetup", 0))
    /\ UNCHANGED <<devFields, op, resetPc, busOp, busPc, callVars, ret, obsVars, events,
                   simVars, pureVars>>

\* d.wlRegOn.High()
Init_wlRegOnHigh ==
    /\ op = "Init"
    /\ initPc = "wlRegOn"
    /\ wlRegOn' = "high"
    /\ initPc' = "sleep"
    /\ steps' = Append(steps, Step("wlRegOn.High", 0))
    /\ UNCHANGED <<cs, sharedSD, devFields, op, resetPc, busOp, busPc, callVars, ret, obsVars,
                   events, simVars, pureVars>>

\* a variant that starts polling without waiting
Init_sleep_noWait ==
    /\ op = "Init"
    /\ initPc = "sleep"
    /\ elapsed' = 0
    /\ got' = Zero32
    /\ initPc' = "loop"
    /\ UNCHANGED <<pinVars, devFields, op, resetPc, busOp, busPc, fn, reg, size, val, cmd, txq,
                   rlen, rbuf, busErr, wlen, ret, obsVars, logVars, simVars, pureVars>>

\* time.Sleep(60ms); startPoll := time.Now(); var got uint32
Init_sleep ==
    /\ op = "Init"
    /\ initPc = "sleep"
    /\ elapsed' = 0
    /\ got' = Zero32
    /\ initPc' = "loop"
    /\ steps' = Append(steps, Step("time.Sleep", initSleepMs))
    /\ UNCHANGED <<pinVars, devFields, op, resetPc, busOp, busPc, fn, reg, size, val, cmd, txq,
                   rlen, rbuf, busErr, wlen, ret, obsVars, events, simVars, pureVars>>

\* a variant whose loop condition is inverted
Init_loop_inverted ==
    /\ op = "Init"
    /\ initPc = "loop"
    /\ IF got = pollExpect
       THEN /\ readReg_enter(FuncAllSPIRegisters, pollAddr, 4, nWrites)
            /\ initPc' = "polling"
            /\ steps' = StepOnce(steps, "poll")
       ELSE /\ writeReg_enter(FuncAllSPIRegisters, 0, initConfigValue, 4, nWrites)
            /\ initPc' = "config"
            /\ steps' = Append(steps, Step("RegisterWriteUint32", 0))
    /\ UNCHANGED <<wlRegOn, op, resetPc, got, elapsed, ret, sawPattern, simVars, pureVars>>

\* for got != pollExpect { got, err = d.RegisterReadUint32(FuncAllSPIRegisters, pollAddr) ... }
\* err = d.RegisterWriteUint32(FuncAllSPIRegisters, 0x0, ...)
Init_loop ==
    /\ op = "Init"
    /\ initPc = "loop"
    /\ IF got # pollExpect
       THEN /\ readReg_enter(FuncAllSPIRegisters, pollAddr, 4, nWrites)
            /\ initPc' = "polling"
            /\ steps' = StepOnce(steps, "poll")
       ELSE /\ writeReg_enter(FuncAllSPIRegisters, 0, initConfigValue, 4, nWrites)
            /\ initPc' = "config"
            /\ steps' = Append(steps, Step("RegisterWriteUint32", 0))
    /\ UNCHANGED <<wlRegOn, op, resetPc, got, elapsed, ret, sawPattern, simVars, pureVars>>

\* a variant that never gives up polling
Init_pollCheck_noDeadline ==
    /\ op = "Init"
    /\ initPc = "polling"
    /\ busPc = "ret"
    /\ LET g == Trunc(readReg_result[1], 4)
           err == readReg_result[2]
       IN  IF err # NoErr
           THEN returnToCaller(InitRet(err))
           ELSE /\ got' = g
                /\ sawPattern' = (sawPattern \/ g = pollExpect)
                /\ initPc' = "loop"
                /\ busOp' = "none"
                /\ busPc' = "none"
                /\ UNCHANGED <<pinVars, devFields, op, resetPc, fn, reg, size, val, cmd, txq,
                               rlen, rbuf, busErr, elapsed, wlen, ret, wire, xferErr,
                               afterFail, nWrites, lastTxn, logVars, sim, store, pureVars>>
    /\ UNCHANGED written

\* a variant that carries on after a failed read
Init_pollCheck_ignoreErr ==
    /\ op = "Init"
    /\ initPc = "polling"
    /\ busPc = "ret"
    /\ LET g == Trunc(readReg_result[1], 4)
       IN  IF g # pollExpect /\ elapsed > pollLimit
           THEN returnToCaller(InitRet(errPollFailed))
           ELSE /\ got' = g
                /\ sawPattern' = (sawPattern \/ g = pollExpect)
                /\ initPc' = "loop"
                /\ busOp' = "none"
                /\ busPc' = "none"
                /\ UNCHANGED <<pinVars, devFields, op, resetPc, fn, reg, size, val, cmd, txq,
                               rlen, rbuf, busErr, elapsed, wlen, ret, wire, xferErr,
                               afterFail, nWrites, lastTxn, logVars, sim, store, pureVars>>
    /\ UNCHANGED written

\* if err != nil { return err }
\* if got != pollExpect && time.Since(startPoll) > pollLimit { return errors.New("poll failed") }
Init_pollCheck ==
    /\ op = "Init"
    /\ initPc = "polling"
    /\ busPc = "ret"
    /\ LET g == Trunc(readReg_result[1], 4)
           err == readReg_result[2]
       IN  IF err # NoErr
           THEN returnToCaller(InitRet(err))
           ELSE IF g # pollExpect /\ elapsed > pollLimit
           THEN returnToCaller(InitRet(errPollFailed))
           ELSE /\ got' = g
                /\ sawPattern' = (sawPattern \/ g = pollExpect)
                /\ initPc' = "loop"
                /\ busOp' = "none"
                /\ busPc' = "none"
                /\ UNCHANGED <<pinVars, devFields, op, resetPc, fn, reg, size, val, cmd, txq,
                               rlen, rbuf, busErr, elapsed, wlen, ret, wire, xferErr,
                               afterFail, nWrites, lastTxn, logVars, sim, store, pureVars>>
    /\ UNCHANGED written

\* if err != nil { return err }; return nil
Init_return ==
    /\ op = "Init"
    /\ initPc = "config"
    /\ busPc = "ret"
    /\ returnToCaller(InitRet(busErr))
    /\ UNCHANGED written

\* the clock (time.Since(startPoll)) moves on while Init polls; time past the
\* deadline is not told apart
Tick ==
    /\ op = "Init"
    /\ initPc \in {"loop", "polling"}
    /\ elapsed <= pollLimit
    /\ elapsed' = elapsed + TickMs
    /\ UNCHANGED <<pinVars, devFields, ctlVars, fn, reg, size, val, cmd, txq, rlen, rbuf,
                   busErr, got, wlen, ret, obsVars, logVars, simVars, pureVars>>

----------------------------------------------------------------------------
(* Dev.Reset                                                               *)

ResetRet == [op |-> "Reset", err |-> NoErr, val |-> Zero32, size |-> 0]

CallReset ==
    /\ op = "idle"
    /\ ~sim
    /\ op' = "Reset"
    /\ resetPc' = "wlRegOn.Low"
    /\ ret' = NoRet
    /\ steps' = <<>>
    /\ sawPattern' = FALSE
    /\ UNCHANGED <<pinVars, devFields, initPc, busOp, busPc, callVars, wire, xferErr,
                   afterFail, nWrites, lastTxn, events, simVars, pureVars>>

\* what a step of Reset leaves alone besides the power-enable pin
restOfReset == <<cs, sharedSD, devFields, op, initPc, busOp, busPc, callVars, ret, obsVars,
                 events, simVars, pureVars>>

\* d.wlRegOn.Low()
Reset_wlRegOnLow ==
    /\ op = "Reset"
    /\ resetPc = "wlRegOn.Low"
    /\ wlRegOn' = "low"
    /\ steps' = Append(steps, Step("wlRegOn.Low", 0))
    /\ resetPc' = "sleepLow"
    /\ UNCHANGED restOfReset

\* time.Sleep(20 * time.Millisecond)
Reset_sleepLow ==
    /\ op = "Reset"
    /\ resetPc = "sleepLow"
    /\ steps' = Append(steps, Step("time.Sleep", resetLowMs))
    /\ resetPc' = "wlRegOn.High"
    /\ UNCHANGED <<wlRegOn, restOfReset>>

\* a variant of Reset that toggles chip-select while it raises the power-enable pin
Reset_wlRegOnHigh_csLow ==
    /\ op = "Reset"
    /\ resetPc = "wlRegOn.High"
    /\ wlRegOn' = "high"
    /\ cs' = "low"
    /\ steps' = Append(steps, Step("wlRegOn.High", 0))
    /\ resetPc' = "sleepHigh"
    /\ UNCHANGED <<sharedSD, devFields, op, initPc, busOp, busPc, callVars, ret, obsVars,
                   events, simVars, pureVars>>

\* d.wlRegOn.High()
Reset_wlRegOnHigh ==
    /\ op = "Reset"
    /\ resetPc = "wlRegOn.High"
    /\ wlRegOn' = "high"
    /\ steps' = Append(steps, Step("wlRegOn.High", 0))
    /\ resetPc' = "sleepHigh"
    /\ UNCHANGED restOfReset

\* time.Sleep(250 * time.Millisecond)
Reset_sleepHigh ==
    /\ op = "Reset"
    /\ resetPc = "sleepHigh"
    /\ steps' = Append(steps, Step("time.Sleep", resetHighMs))
    /\ resetPc' = "return"
    /\ UNCHANGED <<wlRegOn, restOfReset>>

\* Reset returns (it has no result)
Reset_return ==
    /\ op = "Reset"
    /\ resetPc = "return"
    /\ returnToCaller(ResetRet)
    /\ UNCHANGED written

ResetStep ==
    \/ Reset_wlRegOnLow
    \/ Reset_sleepLow
    \/ Reset_wlRegOnHigh
    \/ Reset_sleepHigh
    \/ Reset_return

----------------------------------------------------------------------------
(* Backplane window selection. The operation that switches the window is   *)
(* not part of the sources modelled here; only its effect on the Dev field *)
(* is modelled: the caller selects another window and the driver tracks it *)
(* in currentBackplaneWindow.                                              *)

\* the window of the chip after power-up, and one other window
BackplaneWindows == {0, 32768}

WindowRet == [op |-> "SetBackplaneWindow", err |-> NoErr, val |-> Zero32, size |-> 0]

SetBackplaneWindow ==
    /\ op = "idle"
    /\ ~sim
    /\ \E w \in BackplaneWindows \ {currentBackplaneWindow} : currentBackplaneWindow' = w
    /\ ret' = WindowRet
    /\ steps' = <<>>
    /\ sawPattern' = FALSE
    /\ UNCHANGED <<pinVars, lastSize, lastHeader, lastBackplaneWindow, ctlVars, callVars,
                   wire, xferErr, afterFail, nWrites, lastTxn, events, simVars, pureVars>>

----------------------------------------------------------------------------
(* The driver and its callers                                              *)

NoCmdIn == [write |-> FALSE, inc |-> FALSE, fn |-> 0, hi |-> 0, lo |-> 0, sz |-> 0]
NoCmdOut == [done |-> FALSE, word |-> Zero32]
NoWritten == [f |-> 0, r |-> 0, s |-> 0, v |-> Zero32]
NoClmIn == [len |-> 0, cap |-> 0]
NoClmOut == [done |-> FALSE, panic |-> FALSE, lo |-> 0, hi |-> 0]
NoStatusOut == [done |-> FALSE]

\* the pure functions other than make_cmd have not been applied
NoClmStatus ==
    /\ clmIn = NoClmIn
    /\ clmOut = NoClmOut
    /\ statusIn = Zero32
    /\ statusOut = NoStatusOut

\* the state after NewDev
DevInit ==
    /\ cs = "unset"
    /\ wlRegOn = "unset"
    /\ sharedSD = "unset"
    /\ lastSize = 0
    /\ lastHeader = <<Zero32, Zero32>>
    /\ currentBackplaneWindow = 0
    /\ lastBackplaneWindow = 0
    /\ op = "idle"
    /\ initPc = "none"
    /\ busOp = "none"
    /\ resetPc = "none"
    /\ busPc = "none"
    /\ fn = 0
    /\ reg = 0
    /\ size = 0
    /\ val = Zero32
    /\ cmd = Zero32
    /\ txq = <<>>
    /\ rlen = 0
    /\ rbuf = <<>>
    /\ busErr = NoErr
    /\ got = Zero32
    /\ elapsed = 0
    /\ wlen = 0
    /\ steps = <<>>
    /\ events = <<>>
    /\ ret = NoRet
    /\ wire = <<>>
    /\ xferErr = NoErr
    /\ afterFail = FALSE
    /\ sawPattern = FALSE
    /\ nWrites = 0
    /\ lastTxn = "none"
    /\ store = [k \in Functions \X Regs |-> <<>>]

Init ==
    /\ DevInit
    /\ sim = FALSE
    /\ written = NoWritten
    /\ cmdIn = NoCmdIn
    /\ cmdOut = NoCmdOut
    /\ NoClmStatus

BusStep ==
    \/ spiTransfer
    \/ SPIRead_csHigh
    \/ SPIRead_turn
    \/ SPIWriteRead_turn
    \/ spiTx
    \/ SPIWrite_end

InitStep ==
    \/ gpioSetup
    \/ Init_wlRegOnHigh
    \/ Init_sleep
    \/ Init_loop
    \/ Init_pollCheck
    \/ Init_return

Next ==
    \/ CallInit
    \/ InitStep
    \/ Tick
    \/ CallReset
    \/ ResetStep
    \/ SetBackplaneWindow
    \/ CallRegisterRead
    \/ RegRead_return
    \/ CallRegisterWrite
    \/ RegWrite_return
    \/ CallSPIRead
    \/ CallSPIWriteRead
    \/ CallSPIWrite
    \/ CallSPIWrite32
    \/ Direct_return
    \/ BusStep

Spec == Init /\ [][Next]_vars

----------------------------------------------------------------------------
(* Bring-up alone, with the scheduling it runs under: the single thread of *)
(* control keeps running and the clock keeps advancing.                    *)

InitBusStep ==
    \/ spiTransfer
    \/ SPIRead_csHigh
    \/ SPIRead_turn
    \/ spiTx
    \/ SPIWrite_end

InitProgress == InitStep \/ InitBusStep

LiveNext ==
    \/ CallInit
    \/ InitStep
    \/ InitBusStep
    \/ Tick

LiveSpec == Init /\ [][LiveNext]_vars /\ WF_vars(InitProgress) /\ WF_vars(Tick)

----------------------------------------------------------------------------
(* The command codec as a pure function                                    *)

AddrHighs == {0, 1, 32767}
AddrLows == {0, 20, 5120, 65536, 131071}
CmdSizes == {0, 1, 4, 8, 2047, 2048}
CmdInputs ==
    [write : BOOLEAN, inc : BOOLEAN, fn : Functions, hi : AddrHighs, lo : AddrLows,
     sz : CmdSizes]

\* the 32-bit address hi * 2^17 + lo
CmdAddr(in) == Or(Shl(FromNat(in.hi), 17), FromNat(in.lo))

CmdInit ==
    /\ DevInit
    /\ sim = FALSE
    /\ written = NoWritten
    /\ cmdIn \in CmdInputs
    /\ cmdOut = NoCmdOut
    /\ NoClmStatus

ApplyMakeCmd ==
    /\ ~cmdOut.done
    /\ cmdOut' = [done |-> TRUE,
                  word |-> make_cmd(cmdIn.write, cmdIn.inc, cmdIn.fn, CmdAddr(cmdIn),
                                    FromNat(cmdIn.sz))]
    /\ UNCHANGED <<pinVars, devFields, ctlVars, callVars, ret, obsVars, logVars, simVars,
                   cmdIn, clmIn, clmOut, statusIn, statusOut>>

CmdNext == ApplyMakeCmd

SpecCmd == CmdInit /\ [][CmdNext]_vars

----------------------------------------------------------------------------
(* Register write, then read, through a simulated transport that stores    *)
(* the payload bytes it receives and returns them on a read                *)

SimInit ==
    /\ DevInit
    /\ sim = TRUE
    /\ written \in {[f |-> f, r |-> r, s |-> 0, v |-> Zero32] : f \in Functions, r \in Regs}
    /\ cmdIn = NoCmdIn
    /\ cmdOut = NoCmdOut
    /\ NoClmStatus

SimCallWrite ==
    /\ op = "idle"
    /\ sim
    /\ \E a \in WriteArgs : writeReg_enter(written.f, written.r, a[2], a[1], 0)
    /\ op' = "RegWrite"
    /\ ret' = NoRet
    /\ steps' = <<>>
    /\ UNCHANGED <<wlRegOn, initPc, resetPc, got, elapsed, sawPattern, simVars, pureVars>>

SimCallRead ==
    /\ op = "idle"
    /\ sim
    /\ \E s \in Sizes : readReg_enter(written.f, written.r, s, 0)
    /\ op' = "RegRead"
    /\ ret' = NoRet
    /\ steps' = <<>>
    /\ UNCHANGED <<wlRegOn, initPc, resetPc, got, elapsed, sawPattern, simVars, pureVars>>

SimNext ==
    \/ SimCallWrite
    \/ SimCallRead
    \/ RegWrite_return
    \/ RegRead_return
    \/ spiTransfer
    \/ SPIRead_csHigh
    \/ SPIRead_turn
    \/ spiTx
    \/ SPIWrite_end

SpecSim == SimInit /\ [][SimNext]_vars

----------------------------------------------------------------------------
(* Properties of the bring-up sequence                                     *)

InitReturned == op = "idle" /\ ret.op = "Init"

\* C1: during Init a write transaction (the configuration write to bus-space
\* address 0x0) is issued only after a handshake poll read returned
\* 0xADBEEDFE; an Init that never observed the pattern returns an error and
\* has issued no write transaction.
C1_WriteOnlyAfterPattern ==
    /\ (op = "Init" /\ (initPc = "config" \/ nWrites > 0 \/ busOp = "SPIWrite")) => sawPattern
    /\ (InitReturned /\ ~sawPattern) => (ret.err # NoErr /\ nWrites = 0)
    /\ (InitReturned /\ ret.err = errPollFailed) => (~sawPattern /\ nWrites = 0)

\* C1 witness: the configuration write is on the bus after the pattern was read
C1_Witness ==
    /\ op = "Init"
    /\ busOp = "SPIWrite"
    /\ busPc = "ret"
    /\ Len(wire) = 8
    /\ sawPattern

\* C2: Init terminates when the clock advances: every started Init returns;
\* it returns "poll failed" only after a poll read that did not show the
\* pattern with more than pollLimit elapsed, and it returns at once from such
\* a read; it returns nil exactly when some poll read returned 0xADBEEDFE.
C2_InitTerminates ==
    /\ (op = "Init") ~> InitReturned
    /\ [][(op = "Init" /\ op' = "idle" /\ ret'.err = errPollFailed)
            => (elapsed > pollLimit /\ readReg_result[1] # pollExpect)]_vars
    /\ [][(op = "Init" /\ initPc = "polling" /\ busPc = "ret" /\ busErr = NoErr
             /\ readReg_result[1] # pollExpect /\ elapsed > pollLimit)
            => (op' = "idle" /\ ret'.err = errPollFailed)]_vars
    /\ [](InitReturned => (ret.err = NoErr <=> sawPattern))

\* C2 witness: an Init that gave up on the deadline
C2_Witness == InitReturned /\ ret.err = errPollFailed

C4_ConfigWrite ==
    /\ (InitReturned /\ ret.err = NoErr)
          => (nWrites = 1 /\ lastTxn = "SPIWrite" /\ sawPattern)
    /\ (op = "Init" /\ busOp = "SPIWrite")
          => (/\ nWrites = 1
              /\ sawPattern
              /\ val[31] = 1 /\ val[26] = 1 /\ val[24] = 1
              /\ val[30] = 0 /\ val[27] = 0)
    /\ (op = "Init" /\ busOp = "SPIWrite" /\ busPc = "ret")
          => LET c == LittleEndianUint32(Take(wire, 4))
             IN  /\ c[31] = 1
                 /\ Field(c, 28, 2) = 0
                 /\ Field(c, 11, 17) = 0
                 /\ Field(c, 0, 11) = 4

\* C4 witness: Init returned nil
C4_Witness == InitReturned /\ ret.err = NoErr /\ nWrites = 1

----------------------------------------------------------------------------
(* Properties of the bus transactions                                      *)

\* C5: once chip-select has been driven, it is high whenever a bus operation
\* has returned and in every state between two operations.
C5_ChipSelectReleased ==
    ((op = "idle" \/ busPc = "ret") /\ cs # "unset") => cs = "high"

\* C5 witness: a register read came back with a transport error
C5_Witness ==
    /\ op = "idle"
    /\ ret.op = "RegRead"
    /\ ret.err \in TransportErrs
    /\ cs = "high"

\* C6 (as claimed): a failed byte transfer of the command or payload ends the
\* transaction: no further byte is transmitted, and the register read/write
\* returns that error.
C6_TransferErrorSurfaced ==
    /\ (op \in {"RegRead", "RegWrite"}) => ~afterFail
    /\ (op = "RegWrite" /\ busPc = "ret" /\ xferErr # NoErr) => busErr = xferErr
    /\ (op = "RegRead" /\ busPc = "ret" /\ xferErr # NoErr) => readReg_result[2] = xferErr

\* C7 (as claimed): through the simulated register store, a register read after
\* a write of the same width to the same register returns the value written.
C7_RoundTrip ==
    (sim /\ op = "idle" /\ ret.op = "RegRead" /\ ret.err = NoErr
       /\ written.s # 0 /\ written.s = ret.size)
    => ret.val = written.v

\* the number held by the first n bytes of b, least significant first
LittleEndianValue(b, n) ==
    LET S[k \in 0..n] == IF k = 0 THEN Zero32
                         ELSE Or(S[k - 1], Shl(FromNat(b[k]), 8 * (k - 1)))
    IN  S[n]

\* C8 (as claimed): a register read of s bytes from the backplane function asks
\* the transport for exactly s + 4 bytes, and the value returned is made of the
\* first s bytes only.
C8_BackplaneReadLength ==
    /\ (op = "RegRead" /\ busOp = "SPIRead" /\ busPc \in {"data", "ret"}
          /\ fn = backplaneFunction)
          => rlen = size + 4
    /\ (op = "RegRead" /\ busPc = "ret" /\ busErr = NoErr /\ fn = backplaneFunction)
          => Trunc(readReg_result[1], size) = LittleEndianValue(rbuf, size)

----------------------------------------------------------------------------
(* Properties of the command codec                                         *)

Bit(b) == IF b THEN 1 ELSE 0

\* C9: for addr < 2^17 and size < 2^11, bit 31, bit 30, bits 28-29, bits 11-27
\* and bits 0-10 of make_cmd(write, inc, fn, addr, size) are write, inc, fn,
\* addr and size.
C9_Bijection ==
    (cmdOut.done /\ cmdIn.hi = 0 /\ cmdIn.sz < 2048)
    => /\ cmdOut.word[31] = Bit(cmdIn.write)
       /\ cmdOut.word[30] = Bit(cmdIn.inc)
       /\ Field(cmdOut.word, 28, 2) = cmdIn.fn
       /\ Field(cmdOut.word, 11, 17) = cmdIn.lo
       /\ Field(cmdOut.word, 0, 11) = cmdIn.sz

\* C9 witness: the largest valid address and size, encoded
C9_Witness ==
    /\ cmdOut.done
    /\ cmdIn.hi = 0
    /\ cmdIn.lo = 131071
    /\ cmdIn.sz = 2047
    /\ cmdIn.write
    /\ cmdIn.fn = 3

\* C10: for every 32-bit address a the command word is the one of a mod 2^17:
\* the address field holds the low 17 bits, the write, increment, function and
\* size fields are those of the inputs, and make_cmd is defined on every input.
C10_AddrMasked ==
    /\ ~cmdOut.done => ENABLED ApplyMakeCmd
    /\ cmdOut.done
       => /\ cmdOut.word = make_cmd(cmdIn.write, cmdIn.inc, cmdIn.fn, FromNat(cmdIn.lo),
                                    FromNat(cmdIn.sz))
          /\ cmdOut.word[31] = Bit(cmdIn.write)
          /\ cmdOut.word[30] = Bit(cmdIn.inc)
          /\ Field(cmdOut.word, 28, 2) = cmdIn.fn
          /\ cmdIn.sz < 2048
             => /\ Field(cmdOut.word, 11, 17) = cmdIn.lo
                /\ Field(cmdOut.word, 0, 11) = cmdIn.sz

\* C10 witness: an address with bits above bit 16 (up to bit 31) set, encoded
C10_Witness ==
    /\ cmdOut.done
    /\ cmdIn.hi = 32767
    /\ cmdIn.lo = 20

----------------------------------------------------------------------------
(* Properties of Dev.Reset                                                 *)

ResetReturned == op = "idle" /\ ret.op = "Reset"

\* C11: Reset performs exactly power-enable low, a wait of at least 20 ms,
\* power-enable high, a wait of at least 250 ms, in this order, and between its
\* start and its end chip-select does not change and nothing is transferred
\* on the bus.
C11_ResetSequence ==
    [][ /\ op = "Reset"
           => /\ cs' = cs
              /\ wire' = wire
              /\ events' = events
              /\ busOp' = "none"
              /\ busPc' = "none"
        /\ (op = "Reset" /\ resetPc = "sleepLow") => wlRegOn = "low"
        /\ (op = "Reset" /\ op' = "idle")
           => /\ wlRegOn' = "high"
              /\ Len(steps') = 4
              /\ steps'[1].do = "wlRegOn.Low"
              /\ steps'[2].do = "time.Sleep" /\ steps'[2].ms >= 20
              /\ steps'[3].do = "wlRegOn.High"
              /\ steps'[4].do = "time.Sleep" /\ steps'[4].ms >= 250 ]_vars

\* C11 witness: a Reset of an initialised device has returned
C11_Witness ==
    /\ ResetReturned
    /\ Len(steps) = 4
    /\ cs = "high"
    /\ wlRegOn = "high"
    /\ lastTxn = "SPIWrite"

----------------------------------------------------------------------------
(* Properties of the register access layer and of the bus operations       *)

\* C12 (as claimed): once a register write to the Backplane function space has
\* started its bus transaction, lastHeader holds the command word and the
\* value of that write and lastBackplaneWindow is the current window.
C12_BackplaneWriteRecorded ==
    (op = "RegWrite" /\ busOp = "SPIWrite" /\ fn = FuncBackplane)
    => /\ lastHeader[1] = cmd
       /\ lastHeader[2] = val
       /\ lastBackplaneWindow = currentBackplaneWindow

\* C13 (as claimed): a call of SPIWrite or SPIWrite32 whose buffer length is not
\* a multiple of 4 only ever returns an error: chip-select is not asserted and
\* no byte is handed to the transport for that call.
C13_UnalignedWriteRejected ==
    (busOp \in {"SPIWrite", "SPIWrite32"} /\ wlen % 4 # 0)
    => /\ busPc = "ret"
       /\ busErr # NoErr
       /\ events = <<>>
       /\ wire = <<>>

----------------------------------------------------------------------------
(* GetCLM: the locale blob inside a firmware image                         *)

\* a &^ b
AndNot(a, b) == [i \in Bits |-> IF a[i] = 1 /\ b[i] = 0 THEN 1 ELSE 0]

\* the number held by a word below 2^30
ToNat(w) == Field(w, 0, 30)

\* length of the CLM blob, a constant of the firmware the package embeds
clmLen == 984

\* a variant that rounds down
align32_down(v, align) == ToNat(AndNot(FromNat(v), FromNat(align - 1)))

\* (val + align - 1) &^ (align - 1); the sum stays below 2^31 for the lengths drawn
align32(v, align) == ToNat(AndNot(FromNat(v + align - 1), FromNat(align - 1)))

NoPanic == "none"
panicTooSmall == "firmware slice too small for CLM"
panicSliceBounds == "slice bounds out of range"

\* a variant whose capacity test is not strict
GetCLM_notStrict(length, capacity) ==
    LET clmAddr == align32(length, 512)
    IN  IF capacity <= clmAddr + clmLen
        THEN [done |-> TRUE, panic |-> panicTooSmall, lo |-> 0, hi |-> 0]
        ELSE IF clmAddr + clmLen > capacity
        THEN [done |-> TRUE, panic |-> panicSliceBounds, lo |-> 0, hi |-> 0]
        ELSE [done |-> TRUE, panic |-> NoPanic, lo |-> clmAddr, hi |-> clmAddr + clmLen]

\* GetCLM(firmware) for len(firmware) = length and cap(firmware) = capacity:
\* the panic it raises, or the bounds [lo, hi) of the slice it returns
GetCLM(length, capacity) ==
    LET clmAddr == align32(length, 512)
    IN  IF capacity < clmAddr + clmLen
        THEN [done |-> TRUE, panic |-> panicTooSmall, lo |-> 0, hi |-> 0]
        ELSE IF clmAddr + clmLen > capacity
        THEN [done |-> TRUE, panic |-> panicSliceBounds, lo |-> 0, hi |-> 0]
        ELSE [done |-> TRUE, panic |-> NoPanic, lo |-> clmAddr, hi |-> clmAddr + clmLen]

\* firmware lengths, and capacities around the one GetCLM needs
ClmLens == {0, 1, 2, 511, 512, 513, 1023, 1024, 1025, 1535, 1536, 1537, 2048, 4095}
ClmNeeded(length) == ((length + 511) \div 512) * 512 + clmLen
ClmCaps(length) ==
    {c \in {length, length + 1, ClmNeeded(length) - 1, ClmNeeded(length),
            ClmNeeded(length) + 1, ClmNeeded(length) + 512} : c >= length}
ClmInputs == UNION {{[len |-> l, cap |-> c] : c \in ClmCaps(l)} : l \in ClmLens}

ClmInit ==
    /\ DevInit
    /\ sim = FALSE
    /\ written = NoWritten
    /\ cmdIn = NoCmdIn
    /\ cmdOut = NoCmdOut
    /\ statusIn = Zero32
    /\ statusOut = NoStatusOut
    /\ clmIn \in ClmInputs
    /\ clmOut = NoClmOut

ApplyGetCLM ==
    /\ ~clmOut.done
    /\ clmOut' = GetCLM(clmIn.len, clmIn.cap)
    /\ UNCHANGED <<pinVars, devFields, ctlVars, callVars, ret, obsVars, logVars, simVars,
                   cmdIn, cmdOut, clmIn, statusIn, statusOut>>

ClmNext == ApplyGetCLM

SpecClm == ClmInit /\ [][ClmNext]_vars

\* C14: when GetCLM returns, the slice starts at the smallest multiple of 512
\* that is >= len(firmware) and is clmLen long (0 -> 0, 512 -> 512, 513 -> 1024).
C14_ClmOffset ==
    (clmOut.done /\ clmOut.panic = NoPanic)
    => /\ clmOut.lo % 512 = 0
       /\ clmOut.lo >= clmIn.len
       /\ clmOut.lo - 512 < clmIn.len
       /\ clmOut.hi = clmOut.lo + clmLen
       /\ clmIn.len = 0 => clmOut.lo = 0
       /\ clmIn.len = 512 => clmOut.lo = 512
       /\ clmIn.len = 513 => clmOut.lo = 1024

\* C14 witness: a 513-byte image with room for the blob yields [1024, 1024+clmLen)
C14_Witness ==
    /\ clmOut.done
    /\ clmOut.panic = NoPanic
    /\ clmIn.len = 513
    /\ clmOut.lo = 1024

\* C15: GetCLM panics exactly when cap(firmware) is below the aligned length
\* plus clmLen, and returns the slice otherwise; it always does one of the two.
C15_ClmPanic ==
    /\ ~clmOut.done => ENABLED ApplyGetCLM
    /\ clmOut.done
       => /\ (clmOut.panic # NoPanic) <=> (clmIn.cap < ClmNeeded(clmIn.len))
          /\ clmOut.panic # NoPanic => clmOut.panic = panicTooSmall

\* C15 witness: a capacity one byte short of the need panics
C15_Witness ==
    /\ clmOut.done
    /\ clmOut.panic = panicTooSmall
    /\ clmIn.cap = ClmNeeded(clmIn.len) - 1
    /\ clmIn.len = 513

----------------------------------------------------------------------------
(* Status: the status word that follows a gSPI transaction                 *)

\* w >> k
Shr(w, k) == [i \in Bits |-> IF i + k <= 31 THEN w[i + k] ELSE 0]

\* s&m != 0
Test(s, m) == \E i \in Bits : And(s, m)[i] = 1

DataUnavailable(s) == Test(s, FromNat(1))
IsUnderflow(s) == Test(s, Shl(FromNat(1), 1))
IsOverflow(s) == Test(s, Shl(FromNat(1), 2))
F2Interrupt(s) == Test(s, Shl(FromNat(1), 3))
F2RxReady(s) == Test(s, Shl(FromNat(1), 5))
\* a variant that tests bit 5
F3RxReady_bit5(s) == Test(s, FromNat(32))
\* s&0x40 != 0
F3RxReady(s) == Test(s, FromNat(64))
\* s&0x80 != 0
HostCommandDataError(s) == Test(s, FromNat(128))
\* s&0x0100 != 0
GSPIPacketAvailable(s) == Test(s, FromNat(256))
F2PacketAvailable(s) == Test(s, Shl(FromNat(1), 8))
\* s&0x00100000 != 0
F3PacketAvailable(s) == Test(s, FromNat(1048576))
\* uint16(s>>9) & (1<<11 - 1)
F2PacketLength(s) == Field(And(Trunc(Shr(s, 9), 2), FromNat(2^11 - 1)), 0, 16)
\* uint16(s>>21) & (1<<11 - 1)
F3PacketLength(s) == Field(And(Trunc(Shr(s, 21), 2), FromNat(2^11 - 1)), 0, 16)

\* str += "name " when the flag is set
StrIf(flag, name) == IF flag THEN <<name>> ELSE <<>>

\* Status.String: the names it appends, in order (each is followed by a space)
String(s) ==
    IF s = Zero32
    THEN <<"no status">>
    ELSE StrIf(HostCommandDataError(s), "hostcmderr")
         \o StrIf(DataUnavailable(s), "dataunavailable")
         \o StrIf(IsOverflow(s), "overflow")
         \o StrIf(IsUnderflow(s), "underflow")
         \o StrIf(F2PacketAvailable(s) \/ F3PacketAvailable(s), "packetavail")
         \o StrIf(F2RxReady(s) \/ F3RxReady(s), "rxready")

\* every accessor applied to one status word
StatusDecode(s) ==
    [done |-> TRUE,
     String |-> String(s),
     DataUnavailable |-> DataUnavailable(s),
     IsUnderflow |-> IsUnderflow(s),
     IsOverflow |-> IsOverflow(s),
     F2Interrupt |-> F2Interrupt(s),
     F2RxReady |-> F2RxReady(s),
     F3RxReady |-> F3RxReady(s),
     HostCommandDataError |-> HostCommandDataError(s),
     GSPIPacketAvailable |-> GSPIPacketAvailable(s),
     F2PacketAvailable |-> F2PacketAvailable(s),
     F3PacketAvailable |-> F3PacketAvailable(s),
     F2PacketLength |-> F2PacketLength(s),
     F3PacketLength |-> F3PacketLength(s)]

\* status words: each bit alone, each bit alone cleared, and the words of the examples
OneBit(b) == [i \in Bits |-> IF i = b THEN 1 ELSE 0]
AllButBit(b) == [i \in Bits |-> IF i = b THEN 0 ELSE 1]
StatusWords ==
    {OneBit(b) : b \in Bits} \cup {AllButBit(b) : b \in Bits}
    \cup {Zero32, FromNat(386), [i \in Bits |-> 1], U32(255, 240, 1, 130),
          U32(0, 48, 6, 0)}

StatusInit ==
    /\ DevInit
    /\ sim = FALSE
    /\ written = NoWritten
    /\ cmdIn = NoCmdIn
    /\ cmdOut = NoCmdOut
    /\ clmIn = NoClmIn
    /\ clmOut = NoClmOut
    /\ statusIn \in StatusWords
    /\ statusOut = NoStatusOut

ApplyStatus ==
    /\ ~statusOut.done
    /\ statusOut' = StatusDecode(statusIn)
    /\ UNCHANGED <<pinVars, devFields, ctlVars, callVars, ret, obsVars, logVars, simVars,
                   cmdIn, cmdOut, clmIn, clmOut, statusIn>>

StatusNext == ApplyStatus

SpecStatus == StatusInit /\ [][StatusNext]_vars

\* the flags a decoded status word asserts
FlagNames ==
    {"DataUnavailable", "IsUnderflow", "IsOverflow", "F2Interrupt", "F2RxReady",
     "F3RxReady", "HostCommandDataError", "GSPIPacketAvailable", "F2PacketAvailable",
     "F3PacketAvailable"}
Asserted(d) == {f \in FlagNames : d[f]}

\* C16: each flag accessor is true iff its own bit of the status word is set
\* (bits 0, 1, 2, 3, 5, 6, 7, 8 and 20), whatever the other bits are; 0x00000001
\* asserts data-unavailable only; 0x00000182 asserts exactly underflow,
\* host-command-data-error and packet-available, and both packet lengths are 0.
C16_StatusBits ==
    statusOut.done
    => /\ statusOut.DataUnavailable <=> statusIn[0] = 1
       /\ statusOut.IsUnderflow <=> statusIn[1] = 1
       /\ statusOut.IsOverflow <=> statusIn[2] = 1
       /\ statusOut.F2Interrupt <=> statusIn[3] = 1
       /\ statusOut.F2RxReady <=> statusIn[5] = 1
       /\ statusOut.F3RxReady <=> statusIn[6] = 1
       /\ statusOut.HostCommandDataError <=> statusIn[7] = 1
       /\ statusOut.GSPIPacketAvailable <=> statusIn[8] = 1
       /\ statusOut.F2PacketAvailable <=> statusIn[8] = 1
       /\ statusOut.F3PacketAvailable <=> statusIn[20] = 1
       /\ statusIn = FromNat(1) => Asserted(statusOut) = {"DataUnavailable"}
       /\ statusIn = FromNat(386)
          => /\ Asserted(statusOut) = {"IsUnderflow", "HostCommandDataError",
                                       "GSPIPacketAvailable", "F2PacketAvailable"}
             /\ statusOut.F2PacketLength = 0
             /\ statusOut.F3PacketLength = 0

\* C16 witness: the word 0x00000182 has been decoded
C16_Witness ==
    /\ statusOut.done
    /\ statusIn = FromNat(386)
    /\ statusOut.IsUnderflow
    /\ statusOut.HostCommandDataError

----------------------------------------------------------------------------
(* Properties of the order of bring-up and of the bus transactions         *)

\* the statements of a successful Init, in order
InitOrder == <<"gpioSetup", "wlRegOn.High", "time.Sleep", "poll", "RegisterWriteUint32">>

\* C17: while Init runs, chip-select is asserted or a byte is transferred only
\* after the pins were set up, the power-enable pin was driven high and a wait
\* of at least 50 ms completed; the steps pin setup, power-enable high, wait,
\* polling, configuration write happen in this order, each at most once, and a
\* successful Init has done all five.
C17_InitOrder ==
    /\ (op = "Init" \/ InitReturned)
       => /\ Len(steps) <= Len(InitOrder)
          /\ \A i \in 1..Len(steps) : steps[i].do = InitOrder[i]
    /\ (op = "Init" /\ (busOp # "none" \/ cs = "low" \/ wire # <<>> \/ events # <<>>))
       => /\ Len(steps) >= 4
          /\ steps[3].ms >= 50
          /\ wlRegOn = "high"
    /\ (InitReturned /\ ret.err = NoErr) => Len(steps) = Len(InitOrder)

\* C17 witness: Init returned nil after all five steps
C17_Witness ==
    /\ InitReturned
    /\ ret.err = NoErr
    /\ Len(steps) = 5
    /\ steps[3] = Step("time.Sleep", initSleepMs)
    /\ nWrites = 1

\* C18 (as claimed): every poll of Init is a 32-bit read whose command word has
\* the write bit clear, function 0 (the bus function) and address field
\* TestRegisterAddr (0x14).
C18_PollCommand ==
    (op = "Init" /\ initPc = "polling" /\ busOp = "SPIRead")
    => /\ size = 4
       /\ cmd[31] = 0
       /\ Field(cmd, 28, 2) = FuncAllSPIRegisters
       /\ Field(cmd, 11, 17) = TestRegisterAddr

\* the chip-select, transfer and pin-direction events of a read of n bytes
ReadOrder(n) ==
    <<"cs.Low", "tx", "tx", "tx", "tx", "cs.High", "sharedSD.PinInputPulldown", "cs.Low">>
    \o [k \in 1..n |-> "rx"] \o <<"cs.High">>

IsPrefix(a, b) == Len(a) <= Len(b) /\ a = SubSeq(b, 1, Len(a))

\* the events of the running transaction without the switch of the pin to output
BusEvents == SelectSeq(events, LAMBDA ev : ev # "sharedSD.PinOutput")

C20_WritePayload ==
    (op = "RegWrite" /\ busPc = "ret")
    => /\ wire = writeU32LittleEndian(cmd) \o Take(BigEndianPutUint32(val), size)
       /\ Len(wire) - 4 = Field(cmd, 0, 11)
       /\ events[1] = "cs.Low"
       /\ events[Len(events)] = "cs.High"
       /\ \A i \in 2..(Len(events) - 1) : events[i] \notin {"cs.Low", "cs.High"}

\* a register read is running: RegisterReadUintN called by the user, or a poll of Init
ReadRegRunning ==
    /\ busOp = "SPIRead"
    /\ op = "RegRead" \/ (op = "Init" /\ initPc = "polling")

\* C21 (as claimed): the size field of the command of a register read is the
\* requested width plus 4 exactly when the function space is Backplane (0b01),
\* and the requested width for the functions Bus, WLAN/DMA1 and DMA2.
C21_PaddingIffBackplane ==
    ReadRegRunning
    => Field(cmd, 0, 11) = size + (IF fn = FuncBackplane THEN 4 ELSE 0)

----------------------------------------------------------------------------
(* Properties of the backplane window bookkeeping                          *)

\* C22 (as claimed): when Reset returns, currentBackplaneWindow no longer holds
\* a window that a window switch selected before the reset, and a step changes currentBackplaneWindow only if it is a window switch or
\* belongs to Reset: no step of a register read, a register write or Init does.
C22_WindowInvalidatedByReset ==
    [][ /\ (op = "Reset" /\ op' = "idle") => currentBackplaneWindow' \notin BackplaneWindows \ {0}
        /\ currentBackplaneWindow' # currentBackplaneWindow
           => \/ op = "Reset"
              \/ (op = "idle" /\ ret' = WindowRet) ]_vars

----------------------------------------------------------------------------
(* Properties of Status.String                                             *)

\* the name under which the summary lists a flag
FlagWord(f) ==
    CASE f = "DataUnavailable" -> "dataunavailable"
      [] f = "IsUnderflow" -> "underflow"
      [] f = "IsOverflow" -> "overflow"
      [] f = "F2Interrupt" -> "f2interrupt"
      [] f \in {"F2RxReady", "F3RxReady"} -> "rxready"
      [] f = "HostCommandDataError" -> "hostcmderr"
      [] f \in {"GSPIPacketAvailable", "F2PacketAvailable", "F3PacketAvailable"}
         -> "packetavail"

\* C23 (as claimed): the summary of the zero word is "no status"; the summary
\* of any other word lists the names of exactly the flags asserted in it, and
\* is not empty when at least one flag is asserted.
C23_StringListsFlags ==
    statusOut.done
    => /\ statusIn = Zero32 => statusOut.String = <<"no status">>
       /\ statusIn # Zero32
          => /\ {statusOut.String[i] : i \in 1..Len(statusOut.String)}
                = {FlagWord(f) : f \in Asserted(statusOut)}
             /\ Asserted(statusOut) # {} => statusOut.String # <<>>

----------------------------------------------------------------------------
(* Properties of the length of a register read                             *)

\* the number of bytes clocked in during the running transaction
BytesClockedIn == Cardinality({i \in 1..Len(events) : events[i] = "rx"})

\* C24 (as claimed): when the data phase of a register read of any width on
\* any function is over, the number of bytes clocked in from the transport is
\* the size field of the read command that was sent.
C24_ReadLengthIsSizeField ==
    (ReadRegRunning /\ busPc = "ret")
    => /\ BytesClockedIn = Field(cmd, 0, 11)
       /\ Len(rbuf) = Field(cmd, 0, 11)

====
